---- MODULE Spec2Model ----
\* A model of playwright_plus/web_intercept.py: the three JSON interception
\* functions (intercept_json_playwright, intercept_json_playwright_old,
\* intercept_json_playwright_multiple) and the response handler they install.
\*
\* One behaviour is one call of one of the functions.  The page object of the
\* browser library is the environment: it delivers responses to the handler
\* while the function is inside one of the page's calls (goto, wait_for_timeout,
\* the CAPTCHA solver working on the page), and it decides how long each call
\* lasts.  Time is counted in integer milliseconds.
EXTENDS Integers, FiniteSets, Sequences, TLC

\* ------------------------------------------------------------------ bounds
\* max_refresh is drawn from 0..MaxRefresh
MaxRefresh == 2
\* at most MaxResponses responses are delivered to the handler in one call
MaxResponses == 2
\* wait_seconds is drawn from 0..MaxWaitSeconds
MaxWaitSeconds == 2
\* expect_more is drawn from 0..MaxExpectMore
MaxExpectMore == 2

\* the values of the timeout argument (ms) that are explored
Timeouts == {0, 500, 1200}
\* int(duration * 1000) of the initial page.goto
GotoDurations == {0, 700}
\* how long captcha_solver_function(page) may last (ms)
SolverDurations == {0, 600}
\* how long the refresh page.goto(page_url, timeout=3000) may last (ms)
RefreshDurations == {100}
\* by how much page.wait_for_timeout may overrun the requested time (ms)
WaitOverruns == {0, 20}

\* ------------------------------------------------------- program constants
\* "total duration must be at least 500ms"
SLEEP_FLOOR == 500
\* polls per second of wait_seconds in the _old and _multiple variants
POLLS_PER_SECOND == 2

\* ------------------------------------------------------------ python values
None == "None"

EmptyDict == [k \in {} |-> k]

\* d.get(key, default)
Get(d, key, default) == IF key \in DOMAIN d THEN d[key] ELSE default

\* d[key] = v
Put(d, key, v) == [k \in (DOMAIN d) \cup {key} |-> IF k = key THEN v ELSE d[k]]

\* bool(d) of a dictionary
Truthy(d) == DOMAIN d # {}

\* the object reached from d by following the keys of path, replaced by v
RECURSIVE PutAt(_, _, _)
PutAt(d, path, v) ==
    IF path = <<>> THEN v
    ELSE Put(d, Head(path), PutAt(d[Head(path)], Tail(path), v))

\* ------------------------------------------------------------- the results
ResultDict(err, msg, data) == [error |-> err, error_message |-> msg, data |-> data]

ResultKeys == {"error", "error_message", "data"}

EMPTY_JSON_MESSAGE == "An empty json was collected after calling the hidden API."

EmptyJsonResult == ResultDict("PlaywrightInterceptError", EMPTY_JSON_MESSAGE, EmptyDict)

SuccessResult(data) == ResultDict(None, None, data)

TimeoutErrorResult == ResultDict("PlaywrightTimeoutError", "str(err)", EmptyDict)

GotoErrorResult == ResultDict("PlaywrightGotoError", "str(err)", EmptyDict)

\* ------------------------------------------------------------ the responses
\* decoded JSON bodies
PlainBody == [key |-> "value"]
NestedBody == [key |-> "value", data |-> [inner |-> "x"]]
ErrorBody == [error |-> "denied"]
Bodies == {PlainBody, NestedBody, ErrorBody, EmptyDict}

\* a response: whether json_url_subpart is in its url, whether response.json()
\* succeeds, and the decoded body when it does
Responses ==
    {[url_matches |-> TRUE, decodes |-> TRUE, body |-> b] : b \in Bodies}
    \cup {[url_matches |-> TRUE, decodes |-> FALSE, body |-> EmptyDict],
          [url_matches |-> FALSE, decodes |-> TRUE, body |-> PlainBody]}

DECODE_FAILURE_MESSAGE == "exception when trying to intercept:JSONDecodeError"

\* buffer = response.json(), or the error dictionary when that raises
Buffer(resp) ==
    IF resp.decodes THEN resp.body ELSE [error |-> DECODE_FAILURE_MESSAGE]

\* buffer.get("error") is truthy
HasError(buffer) ==
    /\ "error" \in DOMAIN buffer
    /\ buffer["error"] # None
    /\ buffer["error"] # ""

\* what the handler stores under "data" for a buffer
Stored(buffer) ==
    IF ~HasError(buffer) THEN buffer
    ELSE ResultDict("PlaywrightInterceptError", buffer["error"], EmptyDict)

\* handle_response with an injected defect: a payload already in the buffer
\* is kept
handle_response_KeepsFirst(tj, resp) ==
    IF resp.url_matches /\ "data" \notin DOMAIN tj THEN Put(tj, "data", Stored(Buffer(resp))) ELSE tj

\* handle_response: the object bound to target_json after the response
handle_response(tj, resp) ==
    IF resp.url_matches THEN Put(tj, "data", Stored(Buffer(resp))) ELSE tj

\* ------------------------------------------------------------ the callbacks
\* json_detect_error(result) -> (is_error, result): the verdicts explored.  The
\* callback tags the dictionary it was given and returns it.
DetectVerdicts == {"ok", "captcha", "error"}

DetectIsError(v) == v # "ok"

DetectResult(v, r) ==
    CASE v = "ok" -> r
      [] v = "captcha" -> [r EXCEPT !.error = "CaptchaRaisedError", !.error_message = "captcha"]
      [] v = "error" -> [r EXCEPT !.error = "UnknownError", !.error_message = "unknown"]

\* json_parse_result(result)
ParseResult(r) == [parsed |-> r]

\* -------------------------------------------------------------------- state
VARIABLES
    fn,              \* which function is called: "new", "old" or "multiple"
    has_detect,      \* json_detect_error is a callable
    has_parse,       \* json_parse_result is given
    has_solver,      \* captcha_solver_function is a callable
    timeout,         \* the timeout argument (ms)
    max_refresh,     \* the max_refresh argument
    wait_seconds,    \* the wait_seconds argument
    expect_more,     \* the expect_more argument, decremented by the loop
    expect_more_given, \* the expect_more argument as the caller gave it
    pc,              \* where the function is
    target_json,     \* the object the name target_json is bound to
    result,          \* the local result
    is_error,        \* the local is_error
    bound,           \* which of the locals "result", "is_error" are bound
    alias,           \* path from result to the target_json object, <<"none">> if none
    captcha_to_solve,
    nb_refresh,
    time_spent,
    iter_elapsed,    \* time.perf_counter() - s in the current iteration
    loop_i,          \* iterations of the for loop started so far
    outcome,         \* "running", "returned" or "raised"
    ret,             \* the returned value
    exc,             \* the exception raised
    n_resp,          \* responses delivered so far
    \* history of the call
    nav,             \* outcome of the initial page.goto
    polls,           \* reads of the intercept buffer by the poll loop
    detect_calls,    \* calls of json_detect_error
    parse_calls,     \* calls of json_parse_result
    decoded,         \* a matching response was decoded successfully
    failed_last,     \* the most recent matching response failed to decode
    iterations,      \* iterations of the while loop started
    loop_start,      \* time_spent when the while loop was reached
    exit_kind,       \* how the poll loop was left: "none", "break", "budget"
    break_flagged,   \* is_error at the break
    polled_since_refresh, \* the buffer was read after the last refresh
    last_solver,     \* the tuple captcha_solver_function just returned, <<>> if none
    last_match,      \* the most recent response whose url matched
    match_state,     \* what became of it: "none", "pending", "read_ok", "read_flagged",
                     \* "dropped" (reset before any read), "dropped_polled"
    examined_stale,  \* a poll examined a non-empty value no callback delivered since the last read
    \* create_block_resources: the route handler
    resources_to_block,  \* the list given to create_block_resources
    route_pc,        \* "off", "idle", "abort", "continue_": the call in progress
    route_type,      \* route.request.resource_type of the route being handled
    abort_calls,     \* calls of route.abort() for that route
    continue_calls,  \* calls of route.continue_() for that route
    route_call,      \* how the call ended: "none", "ok", "cancelled", "error"
    handler_outcome, \* "none", "returned" or "raised"
    n_routes,        \* routes handled so far
    \* catch_TimeoutError: the decorated function
    exception_class, \* the exception_class argument of the decorator
    message,         \* the message argument of the decorator
    catch_pc,        \* "off", "idle", "func", "done"
    func_outcome,    \* what the wrapped function did: "none", "returned", "timeout", "error"
    catch_outcome,   \* what the wrapper did: "none", "returned", "raised"
    raised,          \* the exception the wrapper raised
    catch_output,    \* the value the wrapper returned
    n_catch_calls,   \* calls of the wrapper so far
    \* set_json_to_page and the handler of construct_handle_response
    page_target_json, \* page.target_json
    page_target_ref,  \* the identity of the object page.target_json is bound to
    buffer,           \* the buffer of the last call of set_json_to_page
    buffer_ref,       \* the identity of that buffer
    last_response,    \* the response the handler was last called with
    page_match,       \* the last matching response handled since set_json_to_page was called directly
    last_op,          \* "off", "none", "set", "handler_set", "handler_skip"
    prev_target_json, \* page.target_json before the last call
    prev_target_ref,  \* its identity
    json_reads,       \* calls of response.json() so far
    prev_json_reads,  \* calls of response.json() before the last call
    n_page_ops,       \* calls so far
    \* with_page: the decorated function
    kwargs,           \* the keyword arguments of the decorator, kept between calls
    decorator_kwargs, \* the keyword arguments the decorator was given
    caller_kwargs,    \* the keyword arguments the caller gave to the current call
    func_kwargs,      \* the keyword arguments the wrapped function is called with
    with_pc,          \* "off", "idle", "func", "done"
    opened_page,      \* the page opened for the current call
    func_page,        \* the page the wrapped function ran with
    close_log,        \* the close() calls of the current call, in order
    with_outcome,     \* "none", "returned", "raised"
    func_output,      \* what the wrapped function returned
    with_output,      \* what the wrapper returned
    n_with_calls,     \* calls of the wrapper so far
    \* wait_after_execution: the decorated function
    wait_ms,          \* the decorator's wait_ms, which the wrapper rebinds (nonlocal)
    wait_given,       \* the wait_ms the decorator was given
    randomized,       \* the decorator's randomized
    wait_args,        \* the positional arguments of the current call
    wait_kwargs,      \* the keyword arguments of the current call
    wait_pc,          \* "off", "idle", "func", "done"
    wait_page,        \* the page _get_page_arg returned in the current call
    wait_log,         \* the current call: "func" and the durations of page.wait_for_timeout
    wait_outcome,     \* "none", "returned", "raised"
    kw_wait_seen,     \* some call so far had a wait_ms keyword argument
    n_wait_calls,     \* calls of the wrapper so far
    \* check_for_loaded_marker: the decorated function
    marker,           \* the decorator's marker, which the wrapper rebinds (nonlocal)
    marker_given,     \* the marker the decorator was given
    marker_strict,    \* the decorator's marker_strict
    marker_args,      \* the positional arguments of the current call
    marker_kwargs,    \* the keyword arguments of the current call
    marker_pc,        \* "off", "idle", "func", "done"
    marker_page,      \* the page _get_page_arg returned in the current call
    marker_log,       \* the current call: "func" and "wait" in the order they happened
    marker_outcome,   \* "none", "returned", "raised"
    n_marker_calls    \* calls of the wrapper so far

args == <<fn, has_detect, has_parse, has_solver, timeout, max_refresh, wait_seconds,
          expect_more_given>>

locals == <<target_json, result, is_error, bound, alias, captcha_to_solve,
            nb_refresh, time_spent, iter_elapsed, loop_i, expect_more>>

returned == <<outcome, ret, exc>>

history == <<nav, polls, detect_calls, parse_calls, decoded, failed_last,
             iterations, loop_start, exit_kind, break_flagged, polled_since_refresh>>

delivery == <<last_match, match_state, examined_stale>>

intercept == <<args, locals, returned, pc, n_resp, history, last_solver, delivery>>

blockVars == <<resources_to_block, route_pc, route_type, abort_calls, continue_calls,
               route_call, handler_outcome, n_routes>>

catchVars == <<exception_class, message, catch_pc, func_outcome, catch_outcome, raised,
               catch_output, n_catch_calls>>

pageVars == <<page_target_json, page_target_ref, buffer, buffer_ref, last_response, page_match, last_op,
              prev_target_json, prev_target_ref, json_reads, prev_json_reads, n_page_ops>>

withVars == <<kwargs, decorator_kwargs, caller_kwargs, func_kwargs, with_pc, opened_page, func_page, close_log, with_outcome,
              func_output, with_output, n_with_calls>>

waitVars == <<wait_ms, wait_given, randomized, wait_args, wait_kwargs, wait_pc, wait_page, wait_log,
              wait_outcome, kw_wait_seen, n_wait_calls>>

markerVars == <<marker, marker_given, marker_strict, marker_args, marker_kwargs, marker_pc, marker_page,
                marker_log, marker_outcome, n_marker_calls>>

others == <<blockVars, catchVars, pageVars, withVars, waitVars, markerVars>>

vars == <<intercept, others>>

NoAlias == <<"none">>

\* ------------------------------------------------- components not in use
BlockIdle ==
    /\ resources_to_block = {}
    /\ route_pc = "off"
    /\ route_type = None
    /\ abort_calls = 0
    /\ continue_calls = 0
    /\ route_call = "none"
    /\ handler_outcome = "none"
    /\ n_routes = 0

\* an exception object: its class, str(exception) and its message attribute
ExceptionObject(cls, text, attr) == [class |-> cls, text |-> text, message |-> attr]

NoException == ExceptionObject(None, None, <<>>)

CatchIdle ==
    /\ exception_class = None
    /\ message = None
    /\ catch_pc = "off"
    /\ func_outcome = "none"
    /\ catch_outcome = "none"
    /\ raised = NoException
    /\ catch_output = None
    /\ n_catch_calls = 0

NoResponse == [url_matches |-> FALSE, decodes |-> TRUE, body |-> EmptyDict]

\* the state of a page before any call, but for last_op
PageFresh ==
    /\ page_target_json = EmptyDict
    /\ page_target_ref = 0
    /\ buffer = EmptyDict
    /\ buffer_ref = 0
    /\ last_response = NoResponse
    /\ page_match = NoResponse
    /\ prev_target_json = EmptyDict
    /\ prev_target_ref = 0
    /\ json_reads = 0
    /\ prev_json_reads = 0
    /\ n_page_ops = 0

PageIdle == PageFresh /\ last_op = "off"

\* no page object
NoPage == <<>>

\* the state of a with_page wrapper before any call, but for kwargs and with_pc
WithFresh ==
    /\ caller_kwargs = EmptyDict
    /\ func_kwargs = EmptyDict
    /\ opened_page = NoPage
    /\ func_page = NoPage
    /\ close_log = <<>>
    /\ with_outcome = "none"
    /\ func_output = None
    /\ with_output = None
    /\ n_with_calls = 0

WithIdle ==
    WithFresh /\ kwargs = EmptyDict /\ decorator_kwargs = EmptyDict /\ with_pc = "off"

\* the state of a wait_after_execution wrapper before any call, but for the
\* decorator's arguments and wait_pc
WaitFresh ==
    /\ wait_page = NoPage
    /\ wait_args = <<>>
    /\ wait_kwargs = EmptyDict
    /\ wait_log = <<>>
    /\ wait_outcome = "none"
    /\ kw_wait_seen = FALSE
    /\ n_wait_calls = 0

WaitIdle ==
    WaitFresh /\ wait_ms = 0 /\ wait_given = 0 /\ randomized = FALSE /\ wait_pc = "off"

\* a marker: None, a selector string or a Locator built from a selector
Marker(kind, dot, name) == [kind |-> kind, dot |-> dot, name |-> name]

NoMarker == Marker("none", FALSE, None)

\* the state of a check_for_loaded_marker wrapper before any call, but for the
\* decorator's arguments and marker_pc
MarkerFresh ==
    /\ marker_page = NoPage
    /\ marker_args = <<>>
    /\ marker_kwargs = EmptyDict
    /\ marker_log = <<>>
    /\ marker_outcome = "none"
    /\ n_marker_calls = 0

MarkerIdle ==
    /\ MarkerFresh
    /\ marker = NoMarker
    /\ marker_given = NoMarker
    /\ marker_strict = FALSE
    /\ marker_pc = "off"

\* every component but the named one is not in use
IdleExcept(component) ==
    /\ IF component = "block" THEN TRUE ELSE BlockIdle
    /\ IF component = "catch" THEN TRUE ELSE CatchIdle
    /\ IF component = "page" THEN TRUE ELSE PageIdle
    /\ IF component = "with" THEN TRUE ELSE WithIdle
    /\ IF component = "wait" THEN TRUE ELSE WaitIdle
    /\ IF component = "marker" THEN TRUE ELSE MarkerIdle

OthersIdle == IdleExcept("none")

\* ----------------------------------------------------------------- the call
InitLocals ==
    /\ pc = "goto"
    /\ target_json = EmptyDict
    /\ result = EmptyDict
    /\ is_error = FALSE
    /\ bound = {}
    /\ alias = NoAlias
    /\ captcha_to_solve = FALSE
    /\ nb_refresh = 0
    /\ time_spent = 0
    /\ iter_elapsed = 0
    /\ loop_i = 0
    /\ outcome = "running"
    /\ ret = EmptyDict
    /\ exc = None
    /\ n_resp = 0
    /\ nav = "pending"
    /\ polls = 0
    /\ detect_calls = 0
    /\ parse_calls = 0
    /\ decoded = FALSE
    /\ failed_last = FALSE
    /\ iterations = 0
    /\ loop_start = 0
    /\ exit_kind = "none"
    /\ break_flagged = FALSE
    /\ polled_since_refresh = TRUE
    /\ last_solver = <<>>
    /\ expect_more_given = expect_more
    /\ last_match = NoResponse
    /\ match_state = "none"
    /\ examined_stale = FALSE

InitNew ==
    /\ fn = "new"
    /\ has_detect \in BOOLEAN
    /\ has_parse \in BOOLEAN
    /\ has_solver \in BOOLEAN
    /\ timeout \in Timeouts
    /\ max_refresh \in 0..MaxRefresh
    /\ wait_seconds = 0
    /\ expect_more = 0
    /\ InitLocals
    /\ OthersIdle

Return(value) ==
    /\ outcome' = "returned"
    /\ ret' = value
    /\ exc' = None
    /\ pc' = "done"

Raise(e) ==
    /\ outcome' = "raised"
    /\ ret' = EmptyDict
    /\ exc' = e
    /\ pc' = "done"

\* the page is inside one of its calls and dispatches events
InPageCall == pc \in {"goto", "solver", "refresh", "wait"}

\* what a poll makes of the most recent matching response
AfterPoll(state, flagged) ==
    CASE state = "pending" -> IF flagged THEN "read_flagged" ELSE "read_ok"
      [] state = "dropped" -> "dropped_polled"
      [] OTHER -> state

\* the poll about to happen finds a non-empty value although no callback
\* delivered one since the last read
StaleRead == Truthy(Get(target_json, "data", EmptyDict)) /\ match_state # "pending"

\* a response event reaches the handler registered with page.on
HandleResponse(resp) ==
    /\ InPageCall
    /\ IF resp.url_matches
       THEN /\ last_match' = resp
            /\ match_state' = "pending"
       ELSE UNCHANGED <<last_match, match_state>>
    /\ UNCHANGED examined_stale
    /\ n_resp < MaxResponses
    /\ n_resp' = n_resp + 1
    /\ target_json' = handle_response(target_json, resp)
    /\ result' = IF alias # NoAlias /\ resp.url_matches
                 THEN PutAt(result, alias, target_json') ELSE result
    /\ decoded' = (decoded \/ (resp.url_matches /\ resp.decodes))
    /\ failed_last' = IF resp.url_matches THEN ~resp.decodes ELSE failed_last
    /\ UNCHANGED <<args, others, last_solver, returned, pc, is_error, bound, alias, captcha_to_solve,
                   nb_refresh, time_spent, iter_elapsed, loop_i, expect_more>>
    /\ UNCHANGED <<nav, polls, detect_calls, parse_calls, iterations, loop_start,
                   exit_kind, break_flagged, polled_since_refresh>>

\* ------------------------------------------------ intercept_json_playwright
\* the initial page.goto returns or raises; either way the function goes on
NewGotoReturn(how, dur) ==
    /\ fn = "new" /\ pc = "goto"
    /\ nav' = how
    /\ time_spent' = time_spent + dur
    /\ loop_start' = time_spent + dur
    /\ pc' = "loop"
    /\ UNCHANGED <<args, others, delivery, last_solver, returned, n_resp, target_json, result, is_error, bound, alias,
                   captcha_to_solve, nb_refresh, iter_elapsed, loop_i, expect_more>>
    /\ UNCHANGED <<polls, detect_calls, parse_calls, decoded, failed_last, iterations,
                   exit_kind, break_flagged, polled_since_refresh>>

\* the loop condition with the refresh budget tested inclusively
LoopCondition_RefreshInclusive == (time_spent <= timeout) /\ (nb_refresh <= max_refresh)

\* while (time_spent <= timeout) and (nb_refresh < max_refresh)
LoopCondition == (time_spent <= timeout) /\ (nb_refresh < max_refresh)

NewLoopTest ==
    /\ fn = "new" /\ pc = "loop"
    /\ IF LoopCondition
       THEN /\ pc' = "body"
            /\ iter_elapsed' = 0
            /\ iterations' = iterations + 1
            /\ UNCHANGED exit_kind
       ELSE /\ pc' = "after"
            /\ exit_kind' = "budget"
            /\ UNCHANGED <<iter_elapsed, iterations>>
    /\ UNCHANGED <<args, others, delivery, last_solver, returned, n_resp, target_json, result, is_error, bound, alias,
                   captcha_to_solve, nb_refresh, time_spent, loop_i, expect_more>>
    /\ UNCHANGED <<nav, polls, detect_calls, parse_calls, decoded, failed_last,
                   loop_start, break_flagged, polled_since_refresh>>

\* a loop that leaves by break only on a result carrying no error at all
BreaksOn_OnlyWithoutError(tj, r) == Truthy(tj) /\ Get(r, "error", None) = None

\* the loop leaves by break on this buffer value and this result
BreaksOn(tj, r) == Truthy(tj) /\ Get(r, "error", None) # "CaptchaRaisedError"

\* one read of the buffer and the classification of what was read
NewPoll(verdict) ==
    /\ fn = "new" /\ pc = "body"
    /\ match_state' = AfterPoll(match_state, has_detect /\ DetectIsError(verdict))
    /\ examined_stale' = (examined_stale \/ StaleRead)
    /\ UNCHANGED last_match
    /\ has_detect \/ verdict = "ok"
    /\ LET tj == Get(target_json, "data", EmptyDict)
           r0 == SuccessResult(tj)
           r1 == IF has_detect THEN DetectResult(verdict, r0) ELSE r0
           flagged == IF has_detect THEN DetectIsError(verdict) ELSE FALSE
           raise_flag == Truthy(tj) /\ r1.error = "CaptchaRaisedError"
           c2s == captcha_to_solve \/ raise_flag
       IN  /\ target_json' = tj
           /\ is_error' = flagged
           /\ bound' = {"result", "is_error"}
           /\ result' = IF ~Truthy(tj) THEN EmptyJsonResult ELSE r1
           /\ captcha_to_solve' = c2s
           /\ detect_calls' = detect_calls + (IF has_detect THEN 1 ELSE 0)
           /\ IF BreaksOn(tj, r1)
              THEN /\ pc' = "after"
                   /\ exit_kind' = "break"
                   /\ break_flagged' = flagged
              ELSE /\ pc' = IF c2s /\ has_solver THEN "solver" ELSE "sleep"
                   /\ UNCHANGED <<exit_kind, break_flagged>>
    /\ polls' = polls + 1
    /\ polled_since_refresh' = TRUE
    /\ UNCHANGED <<args, others, last_solver, returned, n_resp, alias, nb_refresh, time_spent, iter_elapsed,
                   loop_i, expect_more>>
    /\ UNCHANGED <<nav, parse_calls, decoded, failed_last, iterations, loop_start>>

\* captcha_solver_function(page) returns (ask_for_refresh, captcha_solved)
NewSolverReturn(ask_for_refresh, captcha_solved, dur) ==
    /\ fn = "new" /\ pc = "solver"
    /\ match_state' = IF captcha_solved /\ match_state = "pending" THEN "dropped" ELSE match_state
    /\ UNCHANGED <<last_match, examined_stale>>
    /\ iter_elapsed' = iter_elapsed + dur
    /\ IF captcha_solved
       THEN /\ captcha_to_solve' = FALSE
            /\ target_json' = EmptyDict
            /\ result' = EmptyDict
       ELSE UNCHANGED <<captcha_to_solve, target_json, result>>
    /\ IF ask_for_refresh
       THEN /\ nb_refresh' = nb_refresh + 1
            /\ polled_since_refresh' = FALSE
            /\ pc' = "refresh"
       ELSE /\ pc' = "sleep"
            /\ UNCHANGED <<nb_refresh, polled_since_refresh>>
    /\ UNCHANGED <<args, others, returned, n_resp, is_error, bound, alias, time_spent, loop_i,
                   expect_more>>
    /\ UNCHANGED <<nav, polls, detect_calls, parse_calls, decoded, failed_last,
                   iterations, loop_start, exit_kind, break_flagged>>
    /\ last_solver' = <<ask_for_refresh, captcha_solved>>

\* the refresh page.goto(page_url, timeout=3000) returns or raises
NewRefreshReturn(dur) ==
    /\ fn = "new" /\ pc = "refresh"
    /\ iter_elapsed' = iter_elapsed + dur
    /\ pc' = "sleep"
    /\ UNCHANGED <<args, others, delivery, returned, n_resp, target_json, result, is_error, bound, alias,
                   captcha_to_solve, nb_refresh, time_spent, loop_i, expect_more>>
    /\ UNCHANGED history
    /\ last_solver' = <<>>

\* an iteration that never tops its duration up to the floor
RemainingSleepTime_Dropped(duration) == 0

\* remaining_sleep_time = 500 - int(duration * 1000)
RemainingSleepTime(duration) == SLEEP_FLOOR - duration

\* the end of an iteration that was long enough, or the start of the wait
NewSleep ==
    /\ fn = "new" /\ pc = "sleep"
    /\ IF iter_elapsed < SLEEP_FLOOR
       THEN /\ pc' = "wait"
            /\ UNCHANGED time_spent
       ELSE /\ pc' = "loop"
            /\ time_spent' = time_spent + iter_elapsed
    /\ UNCHANGED <<args, others, delivery, returned, n_resp, target_json, result, is_error, bound, alias,
                   captcha_to_solve, nb_refresh, iter_elapsed, loop_i, expect_more>>
    /\ UNCHANGED history
    /\ last_solver' = <<>>

\* page.wait_for_timeout(remaining_sleep_time) returns; time_spent is updated
NewWaitReturn(overrun) ==
    /\ fn = "new" /\ pc = "wait"
    /\ LET duration == iter_elapsed + RemainingSleepTime(iter_elapsed) + overrun
       IN  /\ iter_elapsed' = duration
           /\ time_spent' = time_spent + duration
    /\ pc' = "loop"
    /\ UNCHANGED <<args, others, delivery, last_solver, returned, n_resp, target_json, result, is_error, bound, alias,
                   captcha_to_solve, nb_refresh, loop_i, expect_more>>
    /\ UNCHANGED history

\* if (not is_error) and json_parse_result: ...; return result
NewFinish ==
    /\ fn = "new" /\ pc = "after"
    /\ IF "is_error" \notin bound
       THEN /\ Raise("UnboundLocalError")
            /\ UNCHANGED parse_calls
       ELSE IF (~is_error) /\ has_parse
            THEN /\ Return(ParseResult(result))
                 /\ parse_calls' = parse_calls + 1
            ELSE /\ Return(result)
                 /\ UNCHANGED parse_calls
    /\ UNCHANGED <<args, others, delivery, last_solver, locals, n_resp>>
    /\ UNCHANGED <<nav, polls, detect_calls, decoded, failed_last, iterations,
                   loop_start, exit_kind, break_flagged, polled_since_refresh>>

NextNew ==
    \/ \E resp \in Responses : HandleResponse(resp)
    \/ \E how \in {"ok", "timeout", "error"}, dur \in GotoDurations : NewGotoReturn(how, dur)
    \/ NewLoopTest
    \/ \E verdict \in DetectVerdicts : NewPoll(verdict)
    \/ \E a \in BOOLEAN, s \in BOOLEAN, dur \in SolverDurations : NewSolverReturn(a, s, dur)
    \/ \E dur \in RefreshDurations : NewRefreshReturn(dur)
    \/ NewSleep
    \/ \E overrun \in WaitOverruns : NewWaitReturn(overrun)
    \/ NewFinish

SpecNew == InitNew /\ [][NextNew]_vars

\* -------------------------------------------- intercept_json_playwright_old
InitOld ==
    /\ fn = "old"
    /\ has_detect \in BOOLEAN
    /\ has_parse \in BOOLEAN
    /\ has_solver = FALSE
    /\ timeout = 0
    /\ max_refresh = 0
    /\ wait_seconds \in 0..MaxWaitSeconds
    /\ expect_more = 0
    /\ InitLocals
    /\ OthersIdle

\* the path from result to the object read by target_json.get("data", {})
AliasOfData == IF alias # NoAlias /\ "data" \in DOMAIN target_json
               THEN Append(alias, "data") ELSE NoAlias

\* a navigation that ignores its timeout, as the _multiple variant does
OldGotoReturn_TimeoutIgnored(how) ==
    /\ fn = "old" /\ pc = "goto"
    /\ nav' = how
    /\ IF how = "error"
       THEN Return(GotoErrorResult)
       ELSE pc' = "for" /\ UNCHANGED returned
    /\ UNCHANGED <<args, others, delivery, last_solver, locals, n_resp>>
    /\ UNCHANGED <<polls, detect_calls, parse_calls, decoded, failed_last, iterations,
                   loop_start, exit_kind, break_flagged, polled_since_refresh>>

\* page.goto returns, or raises: a timeout and any other exception end the call
OldGotoReturn(how) ==
    /\ fn = "old" /\ pc = "goto"
    /\ nav' = how
    /\ CASE how = "ok" -> pc' = "for" /\ UNCHANGED returned
         [] how = "timeout" -> Return(TimeoutErrorResult)
         [] how = "error" -> Return(GotoErrorResult)
    /\ UNCHANGED <<args, others, delivery, last_solver, locals, n_resp>>
    /\ UNCHANGED <<polls, detect_calls, parse_calls, decoded, failed_last, iterations,
                   loop_start, exit_kind, break_flagged, polled_since_refresh>>

\* for _ in range(wait_seconds * 2): page.wait_for_timeout(500) is entered
OldForTest ==
    /\ fn = "old" /\ pc = "for"
    /\ IF loop_i < wait_seconds * POLLS_PER_SECOND
       THEN /\ loop_i' = loop_i + 1
            /\ pc' = "wait"
            /\ UNCHANGED exit_kind
       ELSE /\ pc' = "after"
            /\ exit_kind' = "budget"
            /\ UNCHANGED loop_i
    /\ UNCHANGED <<args, others, delivery, last_solver, returned, n_resp, target_json, result, is_error, bound, alias,
                   captcha_to_solve, nb_refresh, time_spent, iter_elapsed, expect_more>>
    /\ UNCHANGED <<nav, polls, detect_calls, parse_calls, decoded, failed_last,
                   iterations, loop_start, break_flagged, polled_since_refresh>>

\* the wait returns and the buffer is read
OldPoll ==
    /\ fn = "old" /\ pc = "wait"
    /\ match_state' = AfterPoll(match_state, FALSE)
    /\ examined_stale' = (examined_stale \/ StaleRead)
    /\ UNCHANGED last_match
    /\ LET tj == Get(target_json, "data", EmptyDict)
       IN  /\ target_json' = tj
           /\ bound' = bound \cup {"result"}
           /\ time_spent' = time_spent + SLEEP_FLOOR
           /\ IF ~Truthy(tj)
              THEN /\ result' = EmptyJsonResult
                   /\ alias' = NoAlias
                   /\ pc' = "for"
                   /\ UNCHANGED exit_kind
              ELSE /\ result' = SuccessResult(tj)
                   /\ alias' = <<"data">>
                   /\ pc' = "after"
                   /\ exit_kind' = "break"
    /\ polls' = polls + 1
    /\ UNCHANGED <<args, others, last_solver, returned, n_resp, is_error, captcha_to_solve, nb_refresh,
                   iter_elapsed, loop_i, expect_more>>
    /\ UNCHANGED <<nav, detect_calls, parse_calls, decoded, failed_last, iterations,
                   loop_start, break_flagged, polled_since_refresh>>

\* the statements after the loop, shared by the _old and _multiple variants'
\* last lines: is_error is read, json_parse_result is applied, result returned
ParseAndReturn(flag_bound, flag, r) ==
    IF ~flag_bound
    THEN /\ Raise("UnboundLocalError")
         /\ UNCHANGED parse_calls
    ELSE IF (~flag) /\ has_parse
         THEN /\ Return(ParseResult(r))
              /\ parse_calls' = parse_calls + 1
         ELSE /\ Return(r)
              /\ UNCHANGED parse_calls

\* if json_detect_error: ...; if (not is_error) and json_parse_result: ...; return
OldFinish(verdict) ==
    /\ fn = "old" /\ pc = "after"
    /\ has_detect \/ verdict = "ok"
    /\ IF has_detect
       THEN IF "result" \notin bound
            THEN /\ Raise("UnboundLocalError")
                 /\ UNCHANGED <<parse_calls, detect_calls, is_error, result, bound>>
            ELSE /\ detect_calls' = detect_calls + 1
                 /\ is_error' = DetectIsError(verdict)
                 /\ result' = DetectResult(verdict, result)
                 /\ bound' = bound \cup {"is_error"}
                 /\ ParseAndReturn(TRUE, DetectIsError(verdict), DetectResult(verdict, result))
       ELSE /\ ParseAndReturn("is_error" \in bound, is_error, result)
            /\ UNCHANGED <<detect_calls, is_error, result, bound>>
    /\ UNCHANGED <<args, others, delivery, last_solver, n_resp, target_json, alias, captcha_to_solve, nb_refresh,
                   time_spent, iter_elapsed, loop_i, expect_more>>
    /\ UNCHANGED <<nav, polls, decoded, failed_last, iterations, loop_start, exit_kind,
                   break_flagged, polled_since_refresh>>

NextOld ==
    \/ \E resp \in Responses : HandleResponse(resp)
    \/ \E how \in {"ok", "timeout", "error"} : OldGotoReturn(how)
    \/ OldForTest
    \/ OldPoll
    \/ \E verdict \in DetectVerdicts : OldFinish(verdict)

SpecOld == InitOld /\ [][NextOld]_vars

\* --------------------------------------- intercept_json_playwright_multiple
InitMultiple ==
    /\ fn = "multiple"
    /\ has_detect \in BOOLEAN
    /\ has_parse \in BOOLEAN
    /\ has_solver = FALSE
    /\ timeout = 0
    /\ max_refresh = 0
    /\ wait_seconds \in 0..MaxWaitSeconds
    /\ expect_more \in 0..MaxExpectMore
    /\ InitLocals
    /\ OthersIdle

\* page.goto returns, or raises: a timeout is ignored, another exception ends
\* the call; then is_error and result get their initial values
MultipleGotoReturn(how) ==
    /\ fn = "multiple" /\ pc = "goto"
    /\ nav' = how
    /\ IF how = "error"
       THEN /\ Return(GotoErrorResult)
            /\ UNCHANGED <<is_error, result, bound>>
       ELSE /\ pc' = "for"
            /\ is_error' = TRUE
            /\ result' = EmptyJsonResult
            /\ bound' = {"result", "is_error"}
            /\ UNCHANGED returned
    /\ UNCHANGED <<args, others, delivery, last_solver, n_resp, target_json, alias, captcha_to_solve, nb_refresh,
                   time_spent, iter_elapsed, loop_i, expect_more>>
    /\ UNCHANGED <<polls, detect_calls, parse_calls, decoded, failed_last, iterations,
                   loop_start, exit_kind, break_flagged, polled_since_refresh>>

\* for _ in range(wait_seconds * 2): page.wait_for_timeout(500) is entered
MultipleForTest ==
    /\ fn = "multiple" /\ pc = "for"
    /\ IF loop_i < wait_seconds * POLLS_PER_SECOND
       THEN /\ loop_i' = loop_i + 1
            /\ pc' = "wait"
            /\ UNCHANGED exit_kind
       ELSE /\ pc' = "after"
            /\ exit_kind' = "budget"
            /\ UNCHANGED loop_i
    /\ UNCHANGED <<args, others, delivery, last_solver, returned, n_resp, target_json, result, is_error, bound, alias,
                   captcha_to_solve, nb_refresh, time_spent, iter_elapsed, expect_more>>
    /\ UNCHANGED <<nav, polls, detect_calls, parse_calls, decoded, failed_last,
                   iterations, loop_start, break_flagged, polled_since_refresh>>

\* if not is_error or expect_more == 0: break, with an injected defect that
\* breaks only on a result that is not flagged
BreaksMultiple_OnlyUnflagged(flagged, remaining) == ~flagged

\* if not is_error or expect_more == 0: break
BreaksMultiple(flagged, remaining) == (~flagged) \/ remaining = 0

\* the wait returns, the buffer is read and a non-empty value is classified
MultiplePoll(verdict) ==
    /\ fn = "multiple" /\ pc = "wait"
    /\ match_state' = AfterPoll(match_state, IF has_detect THEN DetectIsError(verdict) ELSE is_error)
    /\ examined_stale' = (examined_stale \/ StaleRead)
    /\ UNCHANGED last_match
    /\ LET tj == Get(target_json, "data", EmptyDict)
           examined == Truthy(tj)
           called == examined /\ has_detect
           flagged == IF called THEN DetectIsError(verdict) ELSE is_error
           r0 == SuccessResult(tj)
       IN  /\ called \/ verdict = "ok"
           /\ target_json' = tj
           /\ time_spent' = time_spent + SLEEP_FLOOR
           /\ is_error' = flagged
           /\ detect_calls' = detect_calls + (IF called THEN 1 ELSE 0)
           /\ IF examined
              THEN /\ result' = IF called THEN DetectResult(verdict, r0) ELSE r0
                   /\ alias' = <<"data">>
                   /\ IF BreaksMultiple(flagged, expect_more)
                      THEN /\ pc' = "after"
                           /\ exit_kind' = "break"
                           /\ break_flagged' = flagged
                           /\ UNCHANGED expect_more
                      ELSE /\ expect_more' = expect_more - 1
                           /\ pc' = "for"
                           /\ UNCHANGED <<exit_kind, break_flagged>>
              ELSE /\ alias' = AliasOfData
                   /\ pc' = "for"
                   /\ UNCHANGED <<result, expect_more, exit_kind, break_flagged>>
    /\ polls' = polls + 1
    /\ UNCHANGED <<args, others, last_solver, returned, n_resp, bound, captcha_to_solve, nb_refresh,
                   iter_elapsed, loop_i>>
    /\ UNCHANGED <<nav, parse_calls, decoded, failed_last, iterations, loop_start,
                   polled_since_refresh>>

\* if (not is_error) and json_parse_result: ...; return result
MultipleFinish ==
    /\ fn = "multiple" /\ pc = "after"
    /\ ParseAndReturn("is_error" \in bound, is_error, result)
    /\ UNCHANGED <<args, others, delivery, last_solver, locals, n_resp>>
    /\ UNCHANGED <<nav, polls, detect_calls, decoded, failed_last, iterations,
                   loop_start, exit_kind, break_flagged, polled_since_refresh>>

NextMultiple ==
    \/ \E resp \in Responses : HandleResponse(resp)
    \/ \E how \in {"ok", "timeout", "error"} : MultipleGotoReturn(how)
    \/ MultipleForTest
    \/ \E verdict \in DetectVerdicts : MultiplePoll(verdict)
    \/ MultipleFinish

SpecMultiple == InitMultiple /\ [][NextMultiple]_vars

\* ------------------------------------------------- the three functions
Init == InitNew \/ InitOld \/ InitMultiple

Next ==
    \/ \E resp \in Responses : HandleResponse(resp)
    \/ \E how \in {"ok", "timeout", "error"}, dur \in GotoDurations : NewGotoReturn(how, dur)
    \/ NewLoopTest
    \/ \E verdict \in DetectVerdicts : NewPoll(verdict)
    \/ \E a \in BOOLEAN, s \in BOOLEAN, dur \in SolverDurations : NewSolverReturn(a, s, dur)
    \/ \E dur \in RefreshDurations : NewRefreshReturn(dur)
    \/ NewSleep
    \/ \E overrun \in WaitOverruns : NewWaitReturn(overrun)
    \/ NewFinish
    \/ \E how \in {"ok", "timeout", "error"} : OldGotoReturn(how)
    \/ OldForTest
    \/ OldPoll
    \/ \E verdict \in DetectVerdicts : OldFinish(verdict)
    \/ \E how \in {"ok", "timeout", "error"} : MultipleGotoReturn(how)
    \/ MultipleForTest
    \/ \E verdict \in DetectVerdicts : MultiplePoll(verdict)
    \/ MultipleFinish

Spec == Init /\ [][Next]_vars

\* ------------------------------------------------------------ the properties
\* C1: called without json_detect_error, a returned result has error = None
\* only if a matching response was decoded successfully, and a matching
\* response whose decoding failed never yields a result whose top-level error
\* is None.
C1_ErrorNoneOnlyAfterDecodedJson ==
    (outcome = "returned" /\ ~has_detect /\ "error" \in DOMAIN ret /\ ret["error"] = None)
        => (decoded /\ ret["data"] # Stored([error |-> DECODE_FAILURE_MESSAGE]))

\* C2: intercept_json_playwright never raises and always returns a result,
\* whatever the initial navigation did and for every timeout >= 0 and
\* max_refresh >= 0; when no valid JSON was intercepted the result is tagged
\* PlaywrightInterceptError.
C2_NeverRaises ==
    (fn = "new" /\ pc = "done")
        => /\ outcome = "returned"
           /\ (~decoded /\ ~has_parse) => Get(ret, "error", None) = "PlaywrightInterceptError"

\* C3: without json_parse_result, and with json_detect_error absent or
\* returning the dictionary it was given, every value intercept_json_playwright
\* returns is a dictionary with exactly the keys error, error_message and data.
C3_ReturnsResultDictionary ==
    (fn = "new" /\ outcome = "returned" /\ ~has_parse) => DOMAIN ret = ResultKeys

\* C4: intercept_json_playwright_old called without json_detect_error returns
\* without raising: the success result when a non-empty payload was polled,
\* the "empty json" PlaywrightInterceptError result otherwise.
C4_OldReturnsWithoutDetect ==
    (fn = "old" /\ nav = "ok" /\ ~has_detect /\ ~has_parse /\ pc = "done")
        => /\ outcome = "returned"
           /\ \/ ret = EmptyJsonResult
              \/ ret = SuccessResult(target_json) /\ Truthy(target_json)

NoPollNoCallback == polls = 0 /\ detect_calls = 0 /\ parse_calls = 0

\* C5: a failed navigation is reported as a tagged result.  In the _old variant
\* a timeout returns the PlaywrightTimeoutError result and any other exception
\* the PlaywrightGotoError result, without polling or calling a callback; in the
\* _multiple variant another exception returns the PlaywrightGotoError result
\* and a timeout is ignored: the polls all take place.
C5_NavigationFailuresAreTagged ==
    /\ (fn = "old" /\ nav = "timeout")
          => (outcome = "returned" /\ ret = TimeoutErrorResult /\ NoPollNoCallback)
    /\ (fn = "old" /\ nav = "error")
          => (outcome = "returned" /\ ret = GotoErrorResult /\ NoPollNoCallback)
    /\ (fn = "multiple" /\ nav = "error")
          => (outcome = "returned" /\ ret = GotoErrorResult /\ NoPollNoCallback)
    /\ (fn = "multiple" /\ nav = "timeout" /\ pc = "done")
          => /\ outcome = "returned"
             /\ ret \notin {TimeoutErrorResult, GotoErrorResult}
             /\ \/ exit_kind = "break" /\ polls >= 1
                \/ exit_kind = "budget" /\ polls = wait_seconds * POLLS_PER_SECOND

C5_Witness ==
    /\ fn = "old" /\ nav = "timeout" /\ n_resp > 0
    /\ decoded /\ wait_seconds > 0 /\ has_detect /\ has_parse
    /\ outcome = "returned" /\ ret["error"] = "PlaywrightTimeoutError"

\* C6 as stated: the poll loop of intercept_json_playwright does not stop
\* early on a result that json_detect_error flagged as an error.
C6_NeverBreaksOnFlaggedResult ==
    (fn = "new" /\ exit_kind = "break") => ~break_flagged

\* C6 as amended: the poll loop keeps polling while the buffer is empty or the
\* result is tagged CaptchaRaisedError, until the budget is exhausted; it
\* leaves by break at the first non-empty result whose error is not
\* CaptchaRaisedError, whether json_detect_error flagged it or not.
C6_StopsAtFirstNonCaptchaResult ==
    fn = "new" =>
        /\ exit_kind = "break"
              => (Truthy(target_json) /\ result["error"] # "CaptchaRaisedError")
        /\ exit_kind = "budget" => ~LoopCondition
        /\ pc \in {"solver", "refresh", "sleep", "wait"}
              => /\ exit_kind = "none"
                 /\ \/ result = EmptyJsonResult
                    \/ result = EmptyDict
                    \/ result["error"] = "CaptchaRaisedError"

C6_Witness ==
    /\ fn = "new" /\ exit_kind = "break" /\ break_flagged
    /\ iterations > 1 /\ time_spent <= timeout /\ nb_refresh < max_refresh
    /\ outcome = "returned" /\ ret["error"] = "UnknownError"

\* C7: after every refresh navigation, with time budget left, the poll loop
\* reads the intercept buffer at least once more before the function returns.
C7_PollsAfterEveryRefresh ==
    (fn = "new" /\ pc = "done" /\ max_refresh >= 1 /\ time_spent <= timeout)
        => polled_since_refresh

\* C8: the number of refresh navigations never exceeds max_refresh.
C8_RefreshesWithinBudget == fn = "new" => nb_refresh <= max_refresh

C8_Witness ==
    /\ fn = "new" /\ pc = "done"
    /\ max_refresh = MaxRefresh /\ nb_refresh = max_refresh /\ time_spent <= timeout

\* C9: the time spent in the poll loop never exceeds timeout.
C9_LoopTimeWithinTimeout == fn = "new" => time_spent - loop_start <= timeout

\* C10: every iteration of the poll loop that does not break adds at least
\* 500 ms to time_spent, so the loop starts at most floor(timeout/500)+1
\* iterations.
C10_PollLoopBounded ==
    fn = "new" =>
        /\ iterations <= (timeout \div SLEEP_FLOOR) + 1
        /\ pc = "loop" => time_spent >= loop_start + SLEEP_FLOOR * iterations

C10_Witness ==
    /\ fn = "new" /\ pc = "done" /\ exit_kind = "budget"
    /\ timeout > SLEEP_FLOOR
    /\ iterations = (timeout \div SLEEP_FLOOR) + 1

\* C11: the tuple returned by captcha_solver_function(page) is read as
\* (captcha_solved, refresh_required): the buffer and the result are reset
\* exactly when its first element is true, and a refresh navigation is
\* performed exactly when its second element is true.
C11_SolverTupleOrder ==
    (fn = "new" /\ last_solver # <<>>)
        => /\ (result = EmptyDict) <=> last_solver[1]
           /\ (pc = "refresh") <=> last_solver[2]

\* ------------------------------------------------- create_block_resources
\* resource types of the requests that reach the handler
ResourceTypes == {"stylesheet", "image", "font", "script"}

\* routes handled in one behaviour
MaxRoutes == 2

InterceptIdle ==
    /\ fn = "none"
    /\ has_detect = FALSE
    /\ has_parse = FALSE
    /\ has_solver = FALSE
    /\ timeout = 0
    /\ max_refresh = 0
    /\ wait_seconds = 0
    /\ expect_more = 0
    /\ InitLocals

InitBlock ==
    /\ InterceptIdle
    /\ IdleExcept("block")
    /\ resources_to_block \in SUBSET ResourceTypes
    /\ route_pc = "idle"
    /\ route_type = None
    /\ abort_calls = 0
    /\ continue_calls = 0
    /\ route_call = "none"
    /\ handler_outcome = "none"
    /\ n_routes = 0

\* a handler that continues what it should abort
ShouldAbort_Inverted(resource_type) == resource_type \notin resources_to_block

\* if route.request.resource_type in resources_to_block
ShouldAbort(resource_type) == resource_type \in resources_to_block

\* _block_resources(route) is called and enters route.abort() or route.continue_()
BlockResources(resource_type) ==
    /\ route_pc = "idle"
    /\ n_routes < MaxRoutes
    /\ n_routes' = n_routes + 1
    /\ route_type' = resource_type
    /\ route_call' = "none"
    /\ handler_outcome' = "none"
    /\ IF ShouldAbort(resource_type)
       THEN /\ route_pc' = "abort"
            /\ abort_calls' = 1
            /\ continue_calls' = 0
       ELSE /\ route_pc' = "continue_"
            /\ abort_calls' = 0
            /\ continue_calls' = 1
    /\ UNCHANGED <<intercept, waitVars, markerVars, catchVars, pageVars, withVars, resources_to_block>>

\* the call returns, or raises CancelledError (swallowed) or something else
BlockCallReturn(how) ==
    /\ route_pc \in {"abort", "continue_"}
    /\ route_call' = how
    /\ handler_outcome' = IF how = "error" THEN "raised" ELSE "returned"
    /\ route_pc' = "idle"
    /\ UNCHANGED <<intercept, waitVars, markerVars, catchVars, pageVars, withVars, resources_to_block, route_type, abort_calls,
                   continue_calls, n_routes>>

NextBlock ==
    \/ \E resource_type \in ResourceTypes : BlockResources(resource_type)
    \/ \E how \in {"ok", "cancelled", "error"} : BlockCallReturn(how)

SpecBlock == InitBlock /\ [][NextBlock]_vars

MaxCatchCalls == 2

\* exception classes constructible from one message argument: the built-in
\* Exception (the default), a class with a class attribute "message" (the one
\* of the test), and a class whose __init__ stores its argument as self.message
ExceptionClasses == {"Exception", "CustomTimeoutErrorException", "MessageError"}

\* the message argument: None is the default
Messages == {None, "func: customize timeout error", "timed out"}

\* values the decorated function returns
Outputs == {None, "output"}

\* str(te) of the library's timeout exception
TimeoutTexts == {"Timeout occurred", "Timeout 30000ms exceeded."}

\* whether cls(message) has an attribute "message", and its value
HasMessageAttribute(cls) == cls # "Exception"

MessageAttribute(cls, msg) ==
    IF cls = "CustomTimeoutErrorException" THEN "function_with_timeout_error" ELSE msg

\* isinstance(exception, cls) for the classes above
IsInstance(exception, cls) ==
    exception["class"] # None /\ (exception["class"] = cls \/ cls = "Exception")

InitCatch ==
    /\ InterceptIdle
    /\ IdleExcept("catch")
    /\ exception_class \in ExceptionClasses
    /\ message \in Messages
    /\ catch_pc = "idle"
    /\ func_outcome = "none"
    /\ catch_outcome = "none"
    /\ raised = NoException
    /\ catch_output = None
    /\ n_catch_calls = 0

\* func_wrapper(*args, **kwargs) is called and calls func
CatchCall ==
    /\ catch_pc \in {"idle", "done"}
    /\ n_catch_calls < MaxCatchCalls
    /\ n_catch_calls' = n_catch_calls + 1
    /\ catch_pc' = "func"
    /\ func_outcome' = "none"
    /\ catch_outcome' = "none"
    /\ raised' = NoException
    /\ catch_output' = None
    /\ UNCHANGED <<intercept, waitVars, markerVars, blockVars, pageVars, withVars, exception_class, message>>

\* func returns its output, which the wrapper returns
CatchFuncReturns(output) ==
    /\ catch_pc = "func"
    /\ func_outcome' = "returned"
    /\ catch_outcome' = "returned"
    /\ catch_output' = output
    /\ catch_pc' = "done"
    /\ UNCHANGED <<intercept, waitVars, markerVars, blockVars, pageVars, withVars, exception_class, message, raised, n_catch_calls>>

\* func raises an exception that is not the library's timeout: it propagates
CatchFuncRaisesOther ==
    /\ catch_pc = "func"
    /\ func_outcome' = "error"
    /\ catch_outcome' = "raised"
    /\ raised' = ExceptionObject("ValueError", "other", <<>>)
    /\ catch_pc' = "done"
    /\ UNCHANGED <<intercept, waitVars, markerVars, blockVars, pageVars, withVars, exception_class, message, catch_output, n_catch_calls>>

\* the exception that leaves the except clause for a timeout te
Translated(cls, msg, func_name, te) ==
    IF HasMessageAttribute(cls)
    THEN ExceptionObject(cls, msg, <<"[", func_name, "] ", MessageAttribute(cls, msg), ":\n", te>>)
    ELSE ExceptionObject("AttributeError", "object has no attribute 'message'", <<>>)

\* func raises PlaywrightTimeoutError(te): the except clause runs
CatchFuncRaisesTimeout(te) ==
    /\ catch_pc = "func"
    /\ func_outcome' = "timeout"
    /\ catch_outcome' = "raised"
    /\ raised' = Translated(exception_class, message, "func", te)
    /\ catch_pc' = "done"
    /\ UNCHANGED <<intercept, waitVars, markerVars, blockVars, pageVars, withVars, exception_class, message, catch_output, n_catch_calls>>

NextCatch ==
    \/ CatchCall
    \/ \E output \in Outputs : CatchFuncReturns(output)
    \/ CatchFuncRaisesOther
    \/ \E te \in TimeoutTexts : CatchFuncRaisesTimeout(te)

SpecCatch == InitCatch /\ [][NextCatch]_vars

\* C13: when the decorated function raises the library's timeout exception,
\* the wrapper raises an instance of exception_class whose string form equals
\* message, for every exception class constructible from one message argument,
\* the default Exception included.
C13_RaisesGivenClassWithMessage ==
    func_outcome = "timeout"
        => /\ catch_outcome = "raised"
           /\ IsInstance(raised, exception_class)
           /\ raised["text"] = message

\* ------------------------------- set_json_to_page, construct_handle_response
\* calls of set_json_to_page and of the handler in one behaviour
MaxPageOps == 2

\* the buffers of the tests, and buffers whose "error" entry is falsy
TestBuffers ==
    {[data |-> [test_key |-> "test_value"]],
     [data |-> EmptyDict, error |-> "Error message"],
     [data |-> [test_key |-> "test_value"], error |-> "Error message"],
     [key |-> "value", error |-> ""],
     [key |-> "value", error |-> None]}

PageBuffers == TestBuffers \cup Bodies

\* identities: the buffer of call k, and a dictionary created during call k
BufferRef(k) == 2 * k

CreatedRef(k) == 2 * k + 1

\* page.target_json after set_json_to_page(page, buffer), with an injected
\* defect that keeps the buffer's other entries in the error dictionary
set_json_to_page_KeepsEntries(b) ==
    IF ~HasError(b) THEN b
    ELSE [k \in (DOMAIN b) \cup ResultKeys |->
            IF k = "error" THEN "PlaywrightInterceptError"
            ELSE IF k = "error_message" THEN b["error"]
            ELSE IF k \in DOMAIN b THEN b[k]
            ELSE EmptyDict]

\* page.target_json after set_json_to_page(page, buffer)
set_json_to_page(b) ==
    IF ~HasError(b) THEN b
    ELSE [error |-> "PlaywrightInterceptError", error_message |-> b["error"], data |-> EmptyDict]

\* the identity of page.target_json after set_json_to_page in call k
set_json_to_page_ref(b, k) == IF ~HasError(b) THEN BufferRef(k) ELSE CreatedRef(k)

InitPage ==
    /\ InterceptIdle
    /\ IdleExcept("page")
    /\ PageFresh
    /\ last_op = "none"

\* set_json_to_page(page, b)
SetJsonToPage(b) ==
    /\ last_op # "off"
    /\ n_page_ops < MaxPageOps
    /\ n_page_ops' = n_page_ops + 1
    /\ buffer' = b
    /\ buffer_ref' = BufferRef(n_page_ops')
    /\ page_target_json' = set_json_to_page(b)
    /\ page_target_ref' = set_json_to_page_ref(b, n_page_ops')
    /\ prev_target_json' = page_target_json
    /\ prev_target_ref' = page_target_ref
    /\ prev_json_reads' = json_reads
    /\ last_op' = "set"
    /\ page_match' = NoResponse
    /\ UNCHANGED <<intercept, waitVars, markerVars, blockVars, catchVars, withVars, last_response, json_reads>>

\* json_url_subpart in response.url, with an injected defect that handles
\* every response
UrlContainsSubpart_Always(resp) == resp.url_matches \/ resp.decodes

\* json_url_subpart in response.url
UrlContainsSubpart(resp) == resp.url_matches

\* handle_response(resp), the handler built by construct_handle_response
ConstructedHandleResponse(resp) ==
    /\ last_op # "off"
    /\ n_page_ops < MaxPageOps
    /\ n_page_ops' = n_page_ops + 1
    /\ last_response' = resp
    /\ page_match' = IF UrlContainsSubpart(resp) THEN resp ELSE page_match
    /\ prev_target_json' = page_target_json
    /\ prev_target_ref' = page_target_ref
    /\ prev_json_reads' = json_reads
    /\ IF UrlContainsSubpart(resp)
       THEN /\ json_reads' = json_reads + 1
            /\ buffer' = Buffer(resp)
            /\ buffer_ref' = BufferRef(n_page_ops')
            /\ page_target_json' = set_json_to_page(buffer')
            /\ page_target_ref' = set_json_to_page_ref(buffer', n_page_ops')
            /\ last_op' = "handler_set"
       ELSE /\ last_op' = "handler_skip"
            /\ UNCHANGED <<json_reads, buffer, buffer_ref, page_target_json, page_target_ref>>
    /\ UNCHANGED <<intercept, waitVars, markerVars, blockVars, catchVars, withVars>>

NextPage ==
    \/ \E b \in PageBuffers : SetJsonToPage(b)
    \/ \E resp \in Responses : ConstructedHandleResponse(resp)

SpecPage == InitPage /\ [][NextPage]_vars

\* C14: after set_json_to_page(page, buffer), page.target_json is the buffer
\* itself, unchanged, when the buffer has no truthy "error" entry; otherwise it
\* is a dictionary with exactly the entries error = "PlaywrightInterceptError",
\* error_message = buffer["error"] and data = {}.
C14_SetJsonToPage ==
    last_op \in {"set", "handler_set"}
        => IF "error" \notin DOMAIN buffer \/ buffer["error"] \in {None, ""}
           THEN /\ page_target_json = buffer
                /\ page_target_ref = buffer_ref
           ELSE /\ DOMAIN page_target_json = {"error", "error_message", "data"}
                /\ page_target_json["error"] = "PlaywrightInterceptError"
                /\ page_target_json["error_message"] = buffer["error"]
                /\ page_target_json["data"] = EmptyDict

C14_Witness ==
    /\ last_op = "set"
    /\ buffer = [data |-> EmptyDict, error |-> "Error message"]
    /\ page_target_json["error_message"] = "Error message"
    /\ prev_target_ref = BufferRef(1)
    /\ prev_target_json = [key |-> "value", error |-> ""]

MaxWithCalls == 2

\* the page a caller passes as page=P, and the page opened for call k
CallerPage == <<"caller", 0>>

OpenedPage(k) == <<"opened", k>>

\* dict.update
Update(d, e) == [k \in (DOMAIN d) \cup (DOMAIN e) |-> IF k \in DOMAIN e THEN e[k] ELSE d[k]]

\* the defaults of lines 291-296
WithPageDefault ==
    [accept_downloads |-> TRUE, headless |-> TRUE, block_resources |-> TRUE, proxy_info |-> None]

\* keyword arguments given to the decorator
DecoratorKwargs ==
    {EmptyDict,
     [headless |-> FALSE],
     [headless |-> FALSE, accept_downloads |-> TRUE, block_resources |-> FALSE]}

\* keyword arguments given to a call of the decorated function
CallKwargs ==
    {EmptyDict,
     [page |-> CallerPage],
     [headless |-> TRUE],
     [page |-> CallerPage, proxy_info |-> "http://resource.com:3000"]}

InitWith ==
    /\ InterceptIdle
    /\ IdleExcept("with")
    /\ WithFresh
    /\ kwargs \in DecoratorKwargs
    /\ decorator_kwargs = kwargs
    /\ with_pc = "idle"

\* func_kwargs after line 310: func_kwargs["page"] = page
InjectPage(fk, page) == Put(fk, "page", page)

\* func_wrapper(**fk) up to the call of func: defaults, update, a browser and a
\* page opened, the page put in func_kwargs
WithPageCall(fk) ==
    /\ with_pc \in {"idle", "done"}
    /\ n_with_calls < MaxWithCalls
    /\ n_with_calls' = n_with_calls + 1
    /\ kwargs' = Update(Update(WithPageDefault, kwargs), fk)
    /\ opened_page' = OpenedPage(n_with_calls')
    /\ caller_kwargs' = fk
    /\ func_kwargs' = InjectPage(fk, opened_page')
    /\ func_page' = func_kwargs'["page"]
    /\ close_log' = <<>>
    /\ with_outcome' = "none"
    /\ func_output' = None
    /\ with_output' = None
    /\ with_pc' = "func"
    /\ UNCHANGED <<intercept, waitVars, markerVars, blockVars, catchVars, pageVars, decorator_kwargs>>

\* func returns: page.close(), browser.close(), return output
WithPageFuncReturns(output) ==
    /\ with_pc = "func"
    /\ func_output' = output
    /\ close_log' = <<"page", "browser">>
    /\ with_output' = output
    /\ with_outcome' = "returned"
    /\ with_pc' = "done"
    /\ UNCHANGED <<intercept, waitVars, markerVars, blockVars, catchVars, pageVars, kwargs, decorator_kwargs, caller_kwargs,
                   func_kwargs,
                   opened_page,
                   func_page, n_with_calls>>

\* func raises: the exception leaves the with block and the wrapper
WithPageFuncRaises ==
    /\ with_pc = "func"
    /\ with_outcome' = "raised"
    /\ with_pc' = "done"
    /\ UNCHANGED <<intercept, waitVars, markerVars, blockVars, catchVars, pageVars, kwargs, decorator_kwargs, caller_kwargs,
                   func_kwargs,
                   opened_page,
                   func_page, close_log, func_output, with_output, n_with_calls>>

NextWith ==
    \/ \E fk \in CallKwargs : WithPageCall(fk)
    \/ \E output \in Outputs : WithPageFuncReturns(output)
    \/ WithPageFuncRaises

SpecWith == InitWith /\ [][NextWith]_vars

\* C16: a with_page-decorated function injects a freshly opened page only
\* when the caller did not provide one; when the caller passes page=P as a
\* keyword argument, the wrapped function runs with P.
C16_CallersPageIsUsed ==
    with_pc \in {"func", "done"}
        => func_page = IF "page" \in DOMAIN caller_kwargs THEN caller_kwargs["page"]
                       ELSE opened_page

\* C17: after every execution of a with_page-decorated function, whether the
\* wrapped function returned or raised, the page was closed and then the
\* browser was closed; on a normal return the wrapper returns the output of
\* the wrapped function unchanged.
C17_AlwaysClosesPageThenBrowser ==
    with_pc = "done"
        => /\ close_log = <<"page", "browser">>
           /\ with_outcome = "returned" => with_output = func_output

\* ------------------------------------------------------------ _get_page_arg
\* a Page given by the caller, and an argument that is not a Page
SomePage == <<"page", 1>>

OtherPage == <<"page", 2>>

NotAPage == <<"str", 0>>

\* isinstance(x, Page)
IsPage(x) == x # NoPage /\ x[1] = "page"

\* _get_page_arg with an injected defect: the first positional argument is
\* looked at before the keyword argument
get_page_arg_PositionalFirst(call_args, call_kwargs) ==
    IF call_args # <<>> THEN call_args[1] ELSE Get(call_kwargs, "page", NoPage)

\* the page _get_page_arg finds: the "page" keyword argument, else the first
\* positional argument; it raises when IsPage of it is false
get_page_arg(call_args, call_kwargs) ==
    LET from_kwargs == IF call_kwargs # EmptyDict THEN Get(call_kwargs, "page", NoPage) ELSE NoPage
    IN  IF from_kwargs = NoPage /\ call_args # <<>> THEN call_args[1] ELSE from_kwargs

\* ----------------------------------------------------- wait_after_execution
\* calls of the decorated function in one behaviour
MaxWaitCalls == 2

\* the wait_ms given to the decorator; for these values, for the wait_ms
\* keyword below and for every value drawn from them, int(w * 0.85 + 0.5) and
\* int(w * 1.15 + 0.5) in floating point equal the integer formulas below
WaitMsValues == {2, 20}

\* lines 410-411: int(wait_ms * 0.85 + 0.5) and int(wait_ms * 1.15 + 0.5)
RandomMin(w) == (85 * w + 50) \div 100

RandomMax(w) == (115 * w + 50) \div 100

\* the arguments of a call of the decorated function
WaitCallArgs == {<<>>, <<SomePage>>, <<OtherPage>>, <<NotAPage>>}

WaitCallKwargs ==
    {EmptyDict, [page |-> SomePage], [page |-> NotAPage], [page |-> SomePage, wait_ms |-> 40]}

InitWait ==
    /\ InterceptIdle
    /\ IdleExcept("wait")
    /\ WaitFresh
    /\ wait_given \in WaitMsValues
    /\ wait_ms = wait_given
    /\ randomized \in BOOLEAN
    /\ wait_pc = "idle"

\* func_wrapper(*func_args, **func_kwargs) up to the call of func
WaitCall(call_args, call_kwargs) ==
    /\ wait_pc \in {"idle", "done"}
    /\ n_wait_calls < MaxWaitCalls
    /\ n_wait_calls' = n_wait_calls + 1
    /\ wait_args' = call_args
    /\ wait_kwargs' = call_kwargs
    /\ kw_wait_seen' = (kw_wait_seen \/ "wait_ms" \in DOMAIN call_kwargs)
    /\ IF IsPage(get_page_arg(call_args, call_kwargs))
       THEN /\ wait_page' = get_page_arg(call_args, call_kwargs)
            /\ wait_log' = <<"func">>
            /\ wait_outcome' = "none"
            /\ wait_pc' = "func"
       ELSE /\ wait_page' = NoPage
            /\ wait_log' = <<>>
            /\ wait_outcome' = "raised"
            /\ wait_pc' = "done"
    /\ UNCHANGED <<intercept, blockVars, catchVars, pageVars, withVars, markerVars,
                   wait_ms, wait_given, randomized>>

\* wait_ms after lines 405-406
WaitBase == IF "wait_ms" \in DOMAIN wait_kwargs THEN wait_kwargs["wait_ms"] ELSE wait_ms

\* func returns: the wait is computed, wait_ms rebound, the page waits
WaitFuncReturns ==
    /\ wait_pc = "func"
    /\ \E drawn \in RandomMin(WaitBase) .. RandomMax(WaitBase) :
          wait_ms' = IF randomized THEN drawn ELSE WaitBase
    /\ wait_log' = Append(wait_log, wait_ms')
    /\ wait_outcome' = "returned"
    /\ wait_pc' = "done"
    /\ UNCHANGED <<intercept, blockVars, catchVars, pageVars, withVars, markerVars,
                   wait_given, randomized, wait_args, wait_kwargs, wait_page, kw_wait_seen,
                   n_wait_calls>>

\* func raises: the exception leaves the wrapper
WaitFuncRaises ==
    /\ wait_pc = "func"
    /\ wait_outcome' = "raised"
    /\ wait_pc' = "done"
    /\ UNCHANGED <<intercept, blockVars, catchVars, pageVars, withVars, markerVars,
                   wait_ms, wait_given, randomized, wait_args, wait_kwargs, wait_page, wait_log,
                   kw_wait_seen, n_wait_calls>>

NextWait ==
    \/ \E call_args \in WaitCallArgs, call_kwargs \in WaitCallKwargs : WaitCall(call_args, call_kwargs)
    \/ WaitFuncReturns
    \/ WaitFuncRaises

SpecWait == InitWait /\ [][NextWait]_vars

\* C18: for wait_after_execution(wait_ms=W, randomized=True) called any
\* number of times without a wait_ms keyword, the duration passed to
\* page.wait_for_timeout on every call lies between round(0.85 * W) and
\* round(1.15 * W).
C18_WaitWithinBandOfGiven ==
    (randomized /\ ~kw_wait_seen /\ wait_outcome = "returned")
        => /\ Len(wait_log) = 2
           /\ wait_log[2] >= RandomMin(wait_given)
           /\ wait_log[2] <= RandomMax(wait_given)

\* -------------------------------------------------- check_for_loaded_marker
\* calls of the decorated function in one behaviour
MaxMarkerCalls == 2

\* the marker given to the decorator: None, a selector with or without its
\* dot, or a Locator
MarkersGiven ==
    {NoMarker, Marker("str", FALSE, "loading-spinner"), Marker("str", TRUE, "loading-spinner"),
     Marker("locator", TRUE, "loading-spinner")}

MarkerCallArgs == {<<>>, <<SomePage>>, <<OtherPage>>, <<NotAPage>>}

MarkerCallKwargs == {EmptyDict, [page |-> SomePage], [page |-> NotAPage]}

InitMarker ==
    /\ InterceptIdle
    /\ IdleExcept("marker")
    /\ MarkerFresh
    /\ marker_given \in MarkersGiven
    /\ marker = marker_given
    /\ marker_strict \in BOOLEAN
    /\ marker_pc = "idle"

\* func_wrapper(*func_args, **func_kwargs) up to the call of func
MarkerCall(call_args, call_kwargs) ==
    /\ marker_pc \in {"idle", "done"}
    /\ n_marker_calls < MaxMarkerCalls
    /\ n_marker_calls' = n_marker_calls + 1
    /\ marker_args' = call_args
    /\ marker_kwargs' = call_kwargs
    /\ IF IsPage(get_page_arg(call_args, call_kwargs))
       THEN /\ marker_page' = get_page_arg(call_args, call_kwargs)
            /\ marker_log' = <<"func">>
            /\ marker_outcome' = "none"
            /\ marker_pc' = "func"
       ELSE /\ marker_page' = NoPage
            /\ marker_log' = <<>>
            /\ marker_outcome' = "raised"
            /\ marker_pc' = "done"
    /\ UNCHANGED <<intercept, blockVars, catchVars, pageVars, withVars, waitVars,
                   marker, marker_given, marker_strict>>

\* page.locator(marker), the dot added when lines 473-474 add it
BuildLocator(m, strict) == Marker("locator", m.dot \/ ~strict, m.name)

\* func returns: when marker is a string it is rebound to a Locator and
\* waited for; marker.wait_for raises when the marker does not show in time
MarkerFuncReturns(visible) ==
    /\ marker_pc = "func"
    /\ IF marker.kind = "str"
       THEN /\ marker' = BuildLocator(marker, marker_strict)
            /\ marker_log' = Append(marker_log, "wait")
            /\ marker_outcome' = IF visible THEN "returned" ELSE "raised"
       ELSE /\ visible
            /\ marker_outcome' = "returned"
            /\ UNCHANGED <<marker, marker_log>>
    /\ marker_pc' = "done"
    /\ UNCHANGED <<intercept, blockVars, catchVars, pageVars, withVars, waitVars,
                   marker_given, marker_strict, marker_args, marker_kwargs, marker_page,
                   n_marker_calls>>

\* func raises: the exception leaves the wrapper
MarkerFuncRaises ==
    /\ marker_pc = "func"
    /\ marker_outcome' = "raised"
    /\ marker_pc' = "done"
    /\ UNCHANGED <<intercept, blockVars, catchVars, pageVars, withVars, waitVars,
                   marker, marker_given, marker_strict, marker_args, marker_kwargs,
                   marker_page, marker_log, n_marker_calls>>

NextMarker ==
    \/ \E call_args \in MarkerCallArgs, call_kwargs \in MarkerCallKwargs :
          MarkerCall(call_args, call_kwargs)
    \/ \E visible \in BOOLEAN : MarkerFuncReturns(visible)
    \/ MarkerFuncRaises

SpecMarker == InitMarker /\ [][NextMarker]_vars

\* C19: on every call, the first and all later ones, of a function decorated
\* with check_for_loaded_marker(marker=<string>), the wrapper waits for the
\* marker before it returns the output.
C19_WaitsOnEveryCall ==
    (marker_given.kind = "str" /\ marker_outcome = "returned")
        => \E i \in 1..Len(marker_log) : marker_log[i] = "wait"

\* C20: in every call of a function decorated with check_for_loaded_marker,
\* the wait for the marker precedes the execution of the wrapped function.
C20_WaitPrecedesFunction ==
    marker_given.kind # "none"
        => \A i \in 1..Len(marker_log) :
              marker_log[i] = "func" => \E j \in 1..(i - 1) : marker_log[j] = "wait"

\* ------------------------------ claims on intercept_json_playwright_multiple
\* flagged results the loop has skipped so far
SkippedFlagged == detect_calls - (IF exit_kind = "break" THEN 1 ELSE 0)

C22_ParseAppliedToSuccess ==
    (/\ fn = "multiple" /\ has_parse
     /\ outcome = "returned"
     /\ exit_kind = "break"
     /\ result["data"] \in {PlainBody, NestedBody}
     /\ has_detect => ~break_flagged)
        => /\ parse_calls = 1
           /\ ret = ParseResult(result)

\* -------------------------------------------------- claims on with_page
\* the browser options _instantiate_browser_context_page reads
BrowserOptions == {"accept_downloads", "headless", "block_resources", "proxy_info"}

\* C23: in any sequence of calls of one with_page-decorated function, each
\* browser option used by a call is the value of the call's keyword argument,
\* else the value given to the decorator, else the default; options passed to
\* an earlier call have no effect on a later one.
C23_OptionsOfThisCallOnly ==
    with_pc \in {"func", "done"}
        => \A k \in BrowserOptions :
              kwargs[k] = IF k \in DOMAIN caller_kwargs THEN caller_kwargs[k]
                          ELSE IF k \in DOMAIN decorator_kwargs THEN decorator_kwargs[k]
                          ELSE WithPageDefault[k]

\* ----------------------------------------- claims on wait_after_execution
\* C24: with wait_after_execution(wait_ms=W, randomized=False), every call
\* runs the wrapped function once and then waits exactly the wait_ms of that
\* call's keyword arguments if present and exactly W otherwise, whatever the
\* earlier calls were; nothing is waited when the wrapped function raises.
C24_FixedWaitOfThisCall ==
    ((~randomized) /\ wait_pc = "done")
        => IF wait_outcome = "returned"
           THEN wait_log = <<"func", IF "wait_ms" \in DOMAIN wait_kwargs
                                     THEN wait_kwargs["wait_ms"] ELSE wait_given>>
           ELSE Len(wait_log) <= 1

\* ------------------------------------------------- claims on _get_page_arg
\* either decorator, on a function of its own
InitDecorators == InitWait \/ InitMarker

NextDecorators == NextWait \/ NextMarker

SpecDecorators == InitDecorators /\ [][NextDecorators]_vars

\* the "page" keyword argument when there is one, the first positional
\* argument otherwise
KeywordThenPositional(call_args, call_kwargs) ==
    IF "page" \in DOMAIN call_kwargs THEN call_kwargs["page"]
    ELSE IF Len(call_args) > 0 THEN call_args[1]
    ELSE NoPage

\* neither the "page" keyword argument nor the first positional one is a Page
NeitherIsPage(call_args, call_kwargs) ==
    /\ "page" \in DOMAIN call_kwargs => call_kwargs["page"] # SomePage
    /\ Len(call_args) > 0 => call_args[1] \notin {SomePage, OtherPage}

\* C29: wait_after_execution and check_for_loaded_marker take the page from
\* the "page" keyword argument first and from the first positional argument
\* otherwise; when neither is a Page the wrapper raises, the wrapped function
\* is not executed and nothing is waited for.
C29_PageResolution ==
    /\ wait_pc \in {"func", "done"}
         => /\ wait_page # NoPage => wait_page = KeywordThenPositional(wait_args, wait_kwargs)
            /\ wait_page # NoPage <=> wait_log # <<>>
            /\ NeitherIsPage(wait_args, wait_kwargs)
                 => wait_log = <<>> /\ wait_outcome = "raised" /\ wait_pc = "done"
    /\ marker_pc \in {"func", "done"}
         => /\ marker_page # NoPage
                 => marker_page = KeywordThenPositional(marker_args, marker_kwargs)
            /\ marker_page # NoPage <=> marker_log # <<>>
            /\ NeitherIsPage(marker_args, marker_kwargs)
                 => marker_log = <<>> /\ marker_outcome = "raised" /\ marker_pc = "done"

C29_Witness ==
    /\ marker_pc = "done"
    /\ marker_args = <<OtherPage>>
    /\ marker_kwargs = [page |-> SomePage]
    /\ marker_page = SomePage
    /\ marker_log = <<"func", "wait">>

\* ----------------------------- claims on the delivery of intercepted data
\* C25: in intercept_json_playwright no intercepted response is lost: when a
\* valid non-empty matching response was delivered while the loop still had
\* budget to poll (a poll followed the delivery), no later matching response
\* arrived and json_detect_error did not flag it, the function returns a
\* result with error = None whose data is the body of that response.
C25_NoResponseLost ==
    (/\ fn = "new"
     /\ outcome = "returned"
     /\ last_match.decodes /\ last_match.body = PlainBody
     /\ match_state \in {"read_ok", "dropped_polled"})
        => /\ result["error"] = None
           /\ result["data"] = PlainBody
           /\ ret = IF has_parse THEN ParseResult(result) ELSE result

\* C26: in the poll loops of intercept_json_playwright and
\* intercept_json_playwright_multiple, the value examined at a poll is empty
\* or the body a callback delivered since the last read: the "data" entry of a
\* payload examined at an earlier poll is never examined, counted against
\* expect_more or returned as if it were a newly intercepted response.
C26_OnlyDeliveredBodiesExamined ==
    fn \in {"new", "multiple"} => ~examined_stale

\* ---------------------------- claims on the results of the poll loops
\* C27: intercept_json_playwright applies json_parse_result only to a result
\* built from intercepted JSON that was not flagged: when the loop ends with
\* nothing intercepted (the "empty json" result), json_parse_result is not
\* called and that error result is returned as it is.
C27_EmptyJsonNotParsed ==
    (fn = "new" /\ outcome = "returned" /\ result = EmptyJsonResult)
        => /\ parse_calls = 0
           /\ ret = EmptyJsonResult

\* C28: intercept_json_playwright_old and intercept_json_playwright_multiple
\* make at most 2 * wait_seconds polls, each after a wait of 500 ms;
\* intercept_json_playwright_old stops polling at the first poll that finds a
\* non-empty payload; with wait_seconds = 0 both still return a result
\* dictionary.
C28_BoundedPollsAndResult ==
    fn \in {"old", "multiple"}
        => /\ polls <= POLLS_PER_SECOND * wait_seconds
           /\ time_spent = SLEEP_FLOOR * polls
           /\ (fn = "old" /\ pc \in {"for", "wait"} /\ polls > 0) => result = EmptyJsonResult
           /\ (fn = "old" /\ exit_kind = "break") => Truthy(target_json)
           /\ (pc = "done" /\ wait_seconds = 0)
                => /\ outcome = "returned"
                   /\ DOMAIN ret = ResultKeys

\* -------------------------------------------- claims on the response handlers
\* the handler of construct_handle_response on a page, or one of the
\* interception functions with its inline handler
InitHandlers == Init \/ InitPage

NextHandlers == (fn # "none" /\ Next) \/ NextPage

SpecHandlers == InitHandlers /\ [][NextHandlers]_vars

\* what a buffer holds after a matching response: its decoded body, or the
\* PlaywrightInterceptError dictionary when decoding failed or the body has a
\* truthy "error" entry
OutcomeOf(resp) ==
    IF resp.decodes /\ ("error" \notin DOMAIN resp.body \/ resp.body["error"] \in {None, ""})
    THEN resp.body
    ELSE [error |-> "PlaywrightInterceptError",
          error_message |-> IF resp.decodes THEN resp.body["error"] ELSE DECODE_FAILURE_MESSAGE,
          data |-> EmptyDict]

====
